---- MODULE Spec2Model ----
(***************************************************************************)
(* A model of codekeys (src/src/main.rs): the key-chord parser, the        *)
(* Display formatting of keys, the Ctrl -> Command remapper and the main   *)
(* run that loads a binding table, remaps it and prints the result.        *)
(*                                                                         *)
(* A Rust String is modelled as a sequence of one-character strings, so    *)
(* that lowercasing, splitting and prefix tests are computed character by  *)
(* character as the code computes them.                                    *)
(***************************************************************************)
EXTENDS Integers, Sequences, FiniteSets, TLC

VARIABLES
    pc,        \* position of the run
    file,      \* keys/default.json as found on disk
    bindings,  \* main: the loaded Vec<KeyBinding>
    idx,       \* main: position of the for loop in bindings
    bneu,      \* main: the output Vec<ConfigItem>
    stdout,    \* what println! has written, one entry per call
    code,      \* argument of parse_key_sequence
    rule,      \* parse_key_sequence(code)
    shown,     \* format!("{}", rule)
    rule2,     \* parse_key_sequence(shown)
    token,     \* argument of parse_one_key
    parsed,    \* parse_one_key(token)
    kb,        \* argument of map_ctrl_binding / copy_disabled
    r,         \* map_ctrl_binding(kb)
    d,         \* kb.copy_disabled()
    dd         \* kb.copy_disabled().copy_disabled()

vars == <<pc, file, bindings, idx, bneu, stdout, code, rule, shown, rule2,
          token, parsed, kb, r, d, dd>>

mainVars == <<file, bindings, idx, bneu, stdout>>
seqVars == <<code, rule, shown, rule2>>
keyVars == <<token, parsed>>
remapVars == <<kb, r, d, dd>>

-----------------------------------------------------------------------------
(* Bounds of the model *)

MaxPieces == 3
MaxFrags == 5
MaxCmdFrags == 2
MaxItems == 3

-----------------------------------------------------------------------------
(* Modifier bitmask *)

MODIFIER_SHIFT == 1
MODIFIER_CONTROL == 2
MODIFIER_COMMAND == 4
MODIFIER_OPTION == 8

\* m & b != 0, for a single-bit b
HasBit(m, b) == (m \div b) % 2 = 1

\* m | b, for a single-bit b
BitOr(m, b) == IF HasBit(m, b) THEN m ELSE m + b

\* m ^ b, for a single-bit b
BitXor(m, b) == IF HasBit(m, b) THEN m - b ELSE m + b

-----------------------------------------------------------------------------
(* Option<T> *)

None == [tag |-> "None"]
Some(x) == [tag |-> "Some", val |-> x]

-----------------------------------------------------------------------------
(* Strings *)

RECURSIVE Flatten(_)
Flatten(ss) == IF ss = <<>> THEN <<>> ELSE Head(ss) \o Flatten(Tail(ss))

\* char::is_ascii_whitespace: space, tab, line feed, form feed, carriage return
IsAsciiWhitespace(c) == c \in {" ", "\t", "\n", "\f", "\r"}

\* char lowercasing, on the letters the model's inputs use
LowerChar(c) ==
    CASE c = "C" -> "c"
      [] c = "S" -> "s"
      [] c = "K" -> "k"
      [] c = "W" -> "w"
      [] c = "I" -> "i"
      [] c = "N" -> "n"
      [] c = "M" -> "m"
      [] OTHER -> c

\* str::to_lowercase
to_lowercase(s) == [i \in 1..Len(s) |-> LowerChar(s[i])]

\* str::starts_with("-")
starts_with_dash(s) == Len(s) > 0 /\ s[1] = "-"

\* str::split_inclusive("+"): every piece but the last ends with its '+'
RECURSIVE split_inclusive(_)
split_inclusive(s) ==
    IF s = <<>> THEN <<>>
    ELSE LET plus == {i \in 1..Len(s) : s[i] = "+"}
             n == IF plus = {} THEN Len(s)
                  ELSE CHOOSE i \in plus : \A j \in plus : i <= j
         IN <<SubSeq(s, 1, n)>> \o split_inclusive(SubSeq(s, n + 1, Len(s)))

\* str::split_ascii_whitespace: the maximal runs of non-whitespace characters
RECURSIVE split_ascii_whitespace(_)
split_ascii_whitespace(s) ==
    IF s = <<>> THEN <<>>
    ELSE IF IsAsciiWhitespace(s[1]) THEN split_ascii_whitespace(Tail(s))
    ELSE LET ws == {i \in 1..Len(s) : IsAsciiWhitespace(s[i])}
             n == IF ws = {} THEN Len(s) + 1
                  ELSE CHOOSE i \in ws : \A j \in ws : i <= j
         IN <<SubSeq(s, 1, n - 1)>> \o split_ascii_whitespace(SubSeq(s, n, Len(s)))

-----------------------------------------------------------------------------
(* Key and its parser *)

Key(m, k) == [modifiers |-> m, key |-> k]

anykey == Key(0, <<>>)

sCtrl == <<"c", "t", "r", "l", "+">>
sShift == <<"s", "h", "i", "f", "t", "+">>
sSuper == <<"s", "u", "p", "e", "r", "+">>
sCmd == <<"c", "m", "d", "+">>
sMeta == <<"m", "e", "t", "a", "+">>
sWin == <<"w", "i", "n", "+">>
sAlt == <<"a", "l", "t", "+">>

\* one iteration of the for loop of parse_one_key: the match on a piece
MatchPiece(acc, k) ==
    CASE k = sCtrl -> [acc EXCEPT !.modifiers = BitOr(@, MODIFIER_CONTROL)]
      [] k = sShift -> [acc EXCEPT !.modifiers = BitOr(@, MODIFIER_SHIFT)]
      [] k = sSuper -> [acc EXCEPT !.modifiers = BitOr(@, MODIFIER_COMMAND)]
      [] k = sCmd -> [acc EXCEPT !.modifiers = BitOr(@, MODIFIER_COMMAND)]
      [] k = sMeta -> [acc EXCEPT !.modifiers = BitOr(@, MODIFIER_COMMAND)]
      [] k = sWin -> [acc EXCEPT !.modifiers = BitOr(@, MODIFIER_COMMAND)]
      [] k = sAlt -> [acc EXCEPT !.modifiers = BitOr(@, MODIFIER_OPTION)]
      [] OTHER -> [acc EXCEPT !.thekey = Some(k)]

\* the for loop of parse_one_key over the pieces, in order
RECURSIVE ParseLoop(_, _)
ParseLoop(acc, pieces) ==
    IF pieces = <<>> THEN acc
    ELSE ParseLoop(MatchPiece(acc, Head(pieces)), Tail(pieces))

\* the Key built from the loop's two locals
KeyOf(acc) ==
    Key(acc.modifiers, IF acc.thekey = None THEN <<>> ELSE acc.thekey.val)

\* parse_one_key without the to_lowercase call
parse_one_key_case_sensitive(key) ==
    KeyOf(ParseLoop([modifiers |-> 0, thekey |-> None], split_inclusive(key)))

\* the match of parse_one_key keeping the first non-modifier piece
MatchPieceFirstWins(acc, k) ==
    IF MatchPiece(acc, k).thekey # acc.thekey /\ acc.thekey # None
    THEN acc
    ELSE MatchPiece(acc, k)

RECURSIVE ParseLoopFirstWins(_, _)
ParseLoopFirstWins(acc, pieces) ==
    IF pieces = <<>> THEN acc
    ELSE ParseLoopFirstWins(MatchPieceFirstWins(acc, Head(pieces)), Tail(pieces))

\* parse_one_key keeping the first non-modifier piece as the label
parse_one_key_first_wins(key) ==
    KeyOf(ParseLoopFirstWins([modifiers |-> 0, thekey |-> None],
                             split_inclusive(to_lowercase(key))))

parse_one_key(key) ==
    KeyOf(ParseLoop([modifiers |-> 0, thekey |-> None],
                    split_inclusive(to_lowercase(key))))

-----------------------------------------------------------------------------
(* KeyRule, its parser and the Display formatting *)

KeyRule(k1, k2) == [first |-> k1, second |-> k2]

\* Iterator::next of the mapped token iterator, at position n (from 1)
IterNext(keys, n) == IF n <= Len(keys) THEN Some(keys[n]) ELSE None

\* parse_key_sequence taking the last token, not the second, as second chord
parse_key_sequence_last(c) ==
    LET toks == split_ascii_whitespace(c)
        iter == [i \in 1..Len(toks) |-> parse_one_key(toks[i])]
        k1 == IterNext(iter, 1)
        k2 == IF Len(iter) >= 2 THEN Some(iter[Len(iter)]) ELSE None
    IN KeyRule(IF k1 = None THEN anykey ELSE k1.val, k2)

parse_key_sequence(c) ==
    LET toks == split_ascii_whitespace(c)
        iter == [i \in 1..Len(toks) |-> parse_one_key(toks[i])]
        k1 == IterNext(iter, 1)
        k2 == IterNext(iter, 2)
    IN KeyRule(IF k1 = None THEN anykey ELSE k1.val, k2)

\* impl Display for Key
fmt_Key(k) ==
    (IF HasBit(k.modifiers, MODIFIER_COMMAND) THEN <<"m", "e", "t", "a", "+">> ELSE <<>>)
    \o (IF HasBit(k.modifiers, MODIFIER_OPTION) THEN <<"a", "l", "t", "+">> ELSE <<>>)
    \o (IF HasBit(k.modifiers, MODIFIER_CONTROL) THEN <<"c", "t", "r", "l", "+">> ELSE <<>>)
    \o (IF HasBit(k.modifiers, MODIFIER_SHIFT) THEN <<"s", "h", "i", "f", "t", "+">> ELSE <<>>)
    \o k.key

\* Display for KeyRule without the separating space
fmt_KeyRule_no_space(kr) ==
    fmt_Key(kr.first) \o (IF kr.second = None THEN <<>> ELSE fmt_Key(kr.second.val))

\* impl Display for KeyRule
fmt_KeyRule(kr) ==
    fmt_Key(kr.first)
    \o (IF kr.second = None THEN <<>> ELSE <<" ">> \o fmt_Key(kr.second.val))

-----------------------------------------------------------------------------
(* KeyBinding, ConfigItem and the remapper *)

KeyBinding(keys, command, when, args) ==
    [keys |-> keys, command |-> command, when |-> when, args |-> args]

ConfigItem(key, command, when, args) ==
    [key |-> key, command |-> command, when |-> when, args |-> args]

\* impl From<&KeyBinding> for ConfigItem
ConfigItem_from(b) == ConfigItem(fmt_KeyRule(b.keys), b.command, b.when, b.args)

\* impl From<ConfigItem> for KeyBinding
KeyBinding_from(ci) ==
    KeyBinding(parse_key_sequence(ci.key), ci.command, ci.when, ci.args)

\* copy_disabled without the starts_with test
copy_disabled_always(b) ==
    KeyBinding(b.keys, <<"-">> \o b.command, b.when, b.args)

copy_disabled(b) ==
    IF starts_with_dash(b.command) THEN b
    ELSE KeyBinding(b.keys, <<"-">> \o b.command, b.when, b.args)

\* map_ctrl_to_cmd without the test for Command
map_ctrl_to_cmd_no_cmd_test(k) ==
    IF HasBit(k.modifiers, MODIFIER_CONTROL)
    THEN Some(Key(BitOr(BitXor(k.modifiers, MODIFIER_CONTROL), MODIFIER_COMMAND), k.key))
    ELSE Some(k)

map_ctrl_to_cmd(k) ==
    IF HasBit(k.modifiers, MODIFIER_CONTROL) /\ ~HasBit(k.modifiers, MODIFIER_COMMAND)
    THEN LET xmod == BitOr(BitXor(k.modifiers, MODIFIER_CONTROL), MODIFIER_COMMAND)
         IN Some(Key(xmod, k.key))
    ELSE Some(k)

\* map_ctrl_binding pushing the transformed copy before the disabled copy
map_ctrl_binding_swapped(b) ==
    IF HasBit(b.keys.first.modifiers, MODIFIER_CONTROL)
    THEN LET k1 == map_ctrl_to_cmd(b.keys.first).val
             k2 == IF b.keys.second # None
                   THEN map_ctrl_to_cmd(b.keys.second.val)
                   ELSE None
         IN << KeyBinding(KeyRule(k1, k2), b.command, b.when, b.args),
               copy_disabled(b) >>
    ELSE <<>>

\* map_ctrl_binding gated on Control in any chord
map_ctrl_binding_any_chord(b) ==
    IF \/ HasBit(b.keys.first.modifiers, MODIFIER_CONTROL)
       \/ (b.keys.second # None /\ HasBit(b.keys.second.val.modifiers, MODIFIER_CONTROL))
    THEN LET k1 == map_ctrl_to_cmd(b.keys.first).val
             k2 == IF b.keys.second # None
                   THEN map_ctrl_to_cmd(b.keys.second.val)
                   ELSE None
         IN << copy_disabled(b),
               KeyBinding(KeyRule(k1, k2), b.command, b.when, b.args) >>
    ELSE <<>>

map_ctrl_binding(b) ==
    IF HasBit(b.keys.first.modifiers, MODIFIER_CONTROL)
    THEN LET m1 == map_ctrl_to_cmd(b.keys.first)
         IN IF m1 # None
            THEN LET k1 == m1.val
                     k2 == IF b.keys.second # None
                           THEN map_ctrl_to_cmd(b.keys.second.val)
                           ELSE None
                 IN << copy_disabled(b),
                       KeyBinding(KeyRule(k1, k2), b.command, b.when, b.args) >>
            ELSE <<>>
    ELSE <<>>

-----------------------------------------------------------------------------
(* Inputs *)

\* all concatenations of at most n fragments of F
Concats(F, n) == {Flatten(fs) : fs \in UNION {[1..m -> F] : m \in 0..n}}

\* fragments of one chord token: every recognized modifier, an unrecognized
\* modifier-like piece, labels, a modifier name without its '+', a bare '+'
KeyFragments ==
    { <<"C", "t", "r", "l", "+">>, <<"S", "h", "i", "f", "t", "+">>,
      <<"a", "l", "t", "+">>, <<"s", "u", "p", "e", "r", "+">>,
      <<"c", "m", "d", "+">>, <<"m", "e", "t", "a", "+">>,
      <<"W", "I", "N", "+">>, <<"h", "y", "p", "e", "r", "+">>,
      <<"K">>, <<"c", "t", "r", "l">>, <<"+">> }

Tokens == Concats(KeyFragments, MaxPieces)

\* fragments of a chord-sequence string: two modifiers whose display order is
\* the reverse of their order here, an unrecognized piece, a label, a bare '+',
\* whitespace
SeqFragments ==
    { <<"C", "t", "r", "l", "+">>, <<"m", "e", "t", "a", "+">>,
      <<"h", "y", "p", "e", "r", "+">>, <<"K">>, <<"+">>, <<" ">>, <<"\t">> }

Codes == Concats(SeqFragments, MaxFrags)

NotYet == "NotYet"

-----------------------------------------------------------------------------
(* parse_one_key applied to a token *)

InitKey ==
    /\ pc = "key"
    /\ token \in Tokens
    /\ parsed = NotYet
    /\ file = NotYet /\ bindings = <<>> /\ idx = 0 /\ bneu = <<>> /\ stdout = <<>>
    /\ code = <<>> /\ rule = NotYet /\ shown = NotYet /\ rule2 = NotYet
    /\ kb = NotYet /\ r = NotYet /\ d = NotYet /\ dd = NotYet

ParseOne ==
    /\ pc = "key"
    /\ parsed' = parse_one_key(token)
    /\ pc' = "key_done"
    /\ UNCHANGED <<token, mainVars, seqVars, remapVars>>

NextKey == ParseOne

SpecKey == InitKey /\ [][NextKey]_vars

-----------------------------------------------------------------------------
(* parse_key_sequence, Display and parse_key_sequence again *)

InitSeq ==
    /\ pc = "seq"
    /\ code \in Codes
    /\ rule = NotYet /\ shown = NotYet /\ rule2 = NotYet
    /\ file = NotYet /\ bindings = <<>> /\ idx = 0 /\ bneu = <<>> /\ stdout = <<>>
    /\ token = <<>> /\ parsed = NotYet
    /\ kb = NotYet /\ r = NotYet /\ d = NotYet /\ dd = NotYet

ParseSeq ==
    /\ pc = "seq"
    /\ rule' = parse_key_sequence(code)
    /\ pc' = "seq_parsed"
    /\ UNCHANGED <<code, shown, rule2, mainVars, keyVars, remapVars>>

ShowSeq ==
    /\ pc = "seq_parsed"
    /\ shown' = fmt_KeyRule(rule)
    /\ pc' = "seq_shown"
    /\ UNCHANGED <<code, rule, rule2, mainVars, keyVars, remapVars>>

ReparseSeq ==
    /\ pc = "seq_shown"
    /\ rule2' = parse_key_sequence(shown)
    /\ pc' = "seq_reparsed"
    /\ UNCHANGED <<code, rule, shown, mainVars, keyVars, remapVars>>

NextSeq == ParseSeq \/ ShowSeq \/ ReparseSeq

SpecSeq == InitSeq /\ [][NextSeq]_vars

-----------------------------------------------------------------------------
(* map_ctrl_binding and copy_disabled applied to a binding *)

\* command names: concatenations of the disable marker and a name
CmdFragments == { <<"-">>, <<"f", "o", "o">> }

Commands == Concats(CmdFragments, MaxCmdFrags)

\* every modifier set on the first chord; no second chord, or one with every
\* modifier set; the context and the arguments absent or present
SampleBindings ==
    { KeyBinding(KeyRule(Key(m1, <<"k">>), k2), c, w, a) :
        m1 \in 0..15,
        k2 \in {None} \cup {Some(Key(m2, <<"s">>)) : m2 \in 0..15},
        c \in Commands,
        w \in {None, Some("editorTextFocus")},
        a \in {None, Some("args")} }

InitRemap ==
    /\ pc = "remap"
    /\ kb \in SampleBindings
    /\ r = NotYet /\ d = NotYet /\ dd = NotYet
    /\ file = NotYet /\ bindings = <<>> /\ idx = 0 /\ bneu = <<>> /\ stdout = <<>>
    /\ code = <<>> /\ rule = NotYet /\ shown = NotYet /\ rule2 = NotYet
    /\ token = <<>> /\ parsed = NotYet

Remap ==
    /\ pc = "remap"
    /\ r' = map_ctrl_binding(kb)
    /\ pc' = "remapped"
    /\ UNCHANGED <<kb, d, dd, mainVars, seqVars, keyVars>>

Disable ==
    /\ pc = "remapped"
    /\ d' = copy_disabled(kb)
    /\ pc' = "disabled"
    /\ UNCHANGED <<kb, r, dd, mainVars, seqVars, keyVars>>

DisableAgain ==
    /\ pc = "disabled"
    /\ dd' = copy_disabled(d)
    /\ pc' = "disabled_twice"
    /\ UNCHANGED <<kb, r, d, mainVars, seqVars, keyVars>>

NextRemap == Remap \/ Disable \/ DisableAgain

SpecRemap == InitRemap /\ [][NextRemap]_vars

-----------------------------------------------------------------------------
(* main *)

\* keys/default.json: absent, not a JSON array of ConfigItem records, or a table
MissingFile == [status |-> "missing"]
MalformedFile == [status |-> "malformed"]
TableFile(items) == [status |-> "ok", items |-> items]

SampleKeys ==
    { <<>>,
      <<"c", "t", "r", "l", "+", "k">>,
      <<"s", "h", "i", "f", "t", "+", "k">>,
      <<"c", "t", "r", "l", "+", "k", " ", "c", "t", "r", "l", "+", "s">>,
      <<"s", "h", "i", "f", "t", "+", "k", " ", "c", "t", "r", "l", "+", "s">>,
      <<"M", "e", "t", "a", "+", "C", "t", "r", "l", "+", "K">> }

SampleItems ==
    { ConfigItem(k, <<"f", "o", "o">>, None, None) : k \in SampleKeys }
    \cup { ConfigItem(k, <<"-", "f", "o", "o">>, Some("editorTextFocus"), Some("args")) :
             k \in SampleKeys }

Files ==
    {MissingFile, MalformedFile}
    \cup {TableFile(items) : items \in UNION {[1..n -> SampleItems] : n \in 0..MaxItems}}

Ok(x) == [tag |-> "Ok", val |-> x]
Err == [tag |-> "Err"]

\* load_defaults answering an empty table where the file cannot be loaded
load_defaults_or_default(f) ==
    IF f.status = "ok"
    THEN Ok([i \in 1..Len(f.items) |-> KeyBinding_from(f.items[i])])
    ELSE Ok(<<>>)

\* File::open(path)? and serde_json::from_reader(..)? fail on a missing or a
\* malformed file; otherwise every item is converted with KeyBinding::from
load_defaults(f) ==
    IF f.status = "ok"
    THEN Ok([i \in 1..Len(f.items) |-> KeyBinding_from(f.items[i])])
    ELSE Err

\* the closure of for_each applied to every element of v, in order
PushAll(out, v) == out \o [i \in 1..Len(v) |-> ConfigItem_from(v[i])]

\* main after color_eyre::install()?, which succeeds on its one call in a
\* process and writes nothing
Init ==
    /\ pc = "start"
    /\ file \in Files
    /\ bindings = <<>> /\ idx = 0 /\ bneu = <<>> /\ stdout = <<>>
    /\ code = <<>> /\ rule = NotYet /\ shown = NotYet /\ rule2 = NotYet
    /\ token = <<>> /\ parsed = NotYet
    /\ kb = NotYet /\ r = NotYet /\ d = NotYet /\ dd = NotYet

\* load_defaults().unwrap() on Ok, and `let mut bneu = vec!()`
MainLoadOk ==
    /\ pc = "start"
    /\ load_defaults(file).tag = "Ok"
    /\ bindings' = load_defaults(file).val
    /\ bneu' = <<>>
    /\ idx' = 1
    /\ pc' = "loop"
    /\ UNCHANGED <<file, stdout, seqVars, keyVars, remapVars>>

\* load_defaults().unwrap() on Err: the process panics
MainLoadErr ==
    /\ pc = "start"
    /\ load_defaults(file).tag = "Err"
    /\ pc' = "panicked"
    /\ UNCHANGED <<mainVars, seqVars, keyVars, remapVars>>

\* the loop of main putting every binding's records at the front of bneu
MainLoopPrepend ==
    /\ pc = "loop"
    /\ idx <= Len(bindings)
    /\ bneu' = PushAll(<<>>, map_ctrl_binding(bindings[idx])) \o bneu
    /\ idx' = idx + 1
    /\ UNCHANGED <<pc, file, bindings, stdout, seqVars, keyVars, remapVars>>

\* one iteration of `for k in bindings.iter()`
MainLoop ==
    /\ pc = "loop"
    /\ idx <= Len(bindings)
    /\ bneu' = PushAll(bneu, map_ctrl_binding(bindings[idx]))
    /\ idx' = idx + 1
    /\ UNCHANGED <<pc, file, bindings, stdout, seqVars, keyVars, remapVars>>

\* println!("{}", serde_json::to_string_pretty(&bneu)?) and Ok(()): one write of
\* the whole table (strings and a serde_json::Value always serialize)
MainPrint ==
    /\ pc = "loop"
    /\ idx > Len(bindings)
    /\ stdout' = Append(stdout, bneu)
    /\ pc' = "done"
    /\ UNCHANGED <<file, bindings, idx, bneu, seqVars, keyVars, remapVars>>

Next == MainLoadOk \/ MainLoadErr \/ MainLoop \/ MainPrint

Spec == Init /\ [][Next]_vars

-----------------------------------------------------------------------------
(* Vocabulary of the properties *)

Shift == MODIFIER_SHIFT
Control == MODIFIER_CONTROL
Command == MODIFIER_COMMAND
Option == MODIFIER_OPTION

\* the modifier set a bitmask stands for
Flags(m) == {b \in {Shift, Control, Command, Option} : (m \div b) % 2 = 1}

Max(S) == CHOOSE x \in S : \A y \in S : y <= x

\* the flag a '+'-terminated piece stands for; none for any other piece
FlagOfPiece(p) ==
    CASE p = <<"c", "t", "r", "l", "+">> -> {Control}
      [] p = <<"s", "h", "i", "f", "t", "+">> -> {Shift}
      [] p = <<"a", "l", "t", "+">> -> {Option}
      [] p \in { <<"s", "u", "p", "e", "r", "+">>, <<"c", "m", "d", "+">>,
                 <<"m", "e", "t", "a", "+">>, <<"w", "i", "n", "+">> } -> {Command}
      [] OTHER -> {}

\* ps cuts s into '+'-terminated pieces: nothing lost, no piece empty, a '+'
\* only at the end of a piece, and at the end of every piece but the last
IsPlusSplit(s, ps) ==
    /\ Flatten(ps) = s
    /\ \A i \in 1..Len(ps) :
        /\ Len(ps[i]) > 0
        /\ \A j \in 1..(Len(ps[i]) - 1) : ps[i][j] # "+"
        /\ i < Len(ps) => ps[i][Len(ps[i])] = "+"

\* p occurs in s as a contiguous run
Contains(s, p) ==
    \E i \in 0..(Len(s) - Len(p)) : SubSeq(s, i + 1, i + Len(p)) = p

\* s without its element at position i
RemoveAt(s, i) == SubSeq(s, 1, i - 1) \o SubSeq(s, i + 1, Len(s))

\* the positions where a whitespace-separated token of s starts
TokenStarts(s) ==
    {i \in 1..Len(s) :
        ~IsAsciiWhitespace(s[i]) /\ (i = 1 \/ IsAsciiWhitespace(s[i - 1]))}

\* the token of s that starts at position i
TokenAt(s, i) ==
    SubSeq(s, i, Max({j \in i..Len(s) : \A k \in i..j : ~IsAsciiWhitespace(s[k])}))

\* the n-th token of s, n from 1
NthToken(s, n) ==
    TokenAt(s, CHOOSE i \in TokenStarts(s) :
                   Cardinality({j \in TokenStarts(s) : j < i}) = n - 1)

Remapped == pc \in {"remapped", "disabled", "disabled_twice"}

FirstHasControl(b) == Control \in Flags(b.keys.first.modifiers)

\* the modifier-swap rule as a relation between a chord and its image
SwapRule(in, out) ==
    /\ out.key = in.key
    /\ IF Control \in Flags(in.modifiers) /\ Command \notin Flags(in.modifiers)
       THEN Flags(out.modifiers) = (Flags(in.modifiers) \ {Control}) \cup {Command}
       ELSE out.modifiers = in.modifiers

-----------------------------------------------------------------------------
(* Properties of the remapper *)

\* C1: a binding whose first chord has Control is remapped to exactly two
\* bindings, in this order: the disabled copy (same chords, context and
\* arguments, command with the marker) and the transformed copy (same command,
\* context and arguments); "ctrl+k"/"foo" gives "ctrl+k"/"-foo", "meta+k"/"foo".
C1_TwoBindingsInOrder ==
    (Remapped /\ FirstHasControl(kb)) =>
        /\ Len(r) = 2
        /\ r[1].keys = kb.keys /\ r[1].when = kb.when /\ r[1].args = kb.args
        /\ r[1].command = IF kb.command # <<>> /\ kb.command[1] = "-"
                          THEN kb.command ELSE <<"-">> \o kb.command
        /\ r[2].command = kb.command /\ r[2].when = kb.when /\ r[2].args = kb.args
        /\ (/\ kb.keys = parse_key_sequence(<<"c", "t", "r", "l", "+", "k">>)
            /\ kb.command = <<"f", "o", "o">>)
           => /\ ConfigItem_from(r[1]).key = <<"c", "t", "r", "l", "+", "k">>
              /\ ConfigItem_from(r[1]).command = <<"-", "f", "o", "o">>
              /\ ConfigItem_from(r[2]).key = <<"m", "e", "t", "a", "+", "k">>
              /\ ConfigItem_from(r[2]).command = <<"f", "o", "o">>

C1_Witness ==
    /\ Remapped
    /\ kb.keys = KeyRule(Key(Control, <<"k">>), None)
    /\ kb.command = <<"f", "o", "o">>
    /\ Len(r) = 2
    /\ r[1].command = <<"-", "f", "o", "o">>
    /\ r[2].keys = KeyRule(Key(Command, <<"k">>), None)

\* C2: a binding whose first chord lacks Control is dropped, whatever its second
\* chord (one with Control included), command, context and arguments are.
C2_DroppedWithoutControl ==
    (Remapped /\ ~FirstHasControl(kb)) => r = <<>>

C2_Witness ==
    /\ Remapped
    /\ ~FirstHasControl(kb)
    /\ kb.keys.second # None
    /\ Control \in Flags(kb.keys.second.val.modifiers)
    /\ kb.when # None /\ kb.args # None
    /\ r = <<>>

\* C3: in the transformed copy every chord went through the modifier-swap rule
\* on its own, and a second chord is there exactly when the input has one;
\* "ctrl+k ctrl+s" becomes "meta+k meta+s", "meta+ctrl+k" stays as it is.
C3_SwapEveryChord ==
    (Remapped /\ FirstHasControl(kb)) =>
        /\ Len(r) >= 2
        /\ SwapRule(kb.keys.first, r[2].keys.first)
        /\ (r[2].keys.second = None) <=> (kb.keys.second = None)
        /\ kb.keys.second # None =>
             /\ r[2].keys.second.tag = "Some"
             /\ SwapRule(kb.keys.second.val, r[2].keys.second.val)
        /\ kb.keys = parse_key_sequence(<<"c", "t", "r", "l", "+", "k", " ",
                                          "c", "t", "r", "l", "+", "s">>)
             => fmt_KeyRule(r[2].keys) = <<"m", "e", "t", "a", "+", "k", " ",
                                           "m", "e", "t", "a", "+", "s">>
        /\ kb.keys = parse_key_sequence(<<"m", "e", "t", "a", "+", "c", "t", "r", "l", "+", "k">>)
             => fmt_KeyRule(r[2].keys) = <<"m", "e", "t", "a", "+", "c", "t", "r", "l", "+", "k">>

C3_Witness ==
    /\ Remapped
    /\ kb.keys.first.modifiers = Control + Shift
    /\ kb.keys.second = Some(Key(Control + Command, <<"s">>))
    /\ Len(r) = 2
    /\ r[2].keys.first = Key(Command + Shift, <<"k">>)
    /\ r[2].keys.second = Some(Key(Control + Command, <<"s">>))

\* C4: copy_disabled leaves a binding whose command starts with "-" as it is,
\* puts exactly one "-" before any other command, keeps chords, context and
\* arguments, and applied twice gives what it gives applied once.
C4_DisableIdempotent ==
    (pc = "disabled_twice") =>
        /\ (kb.command # <<>> /\ kb.command[1] = "-") => d = kb
        /\ ~(kb.command # <<>> /\ kb.command[1] = "-") =>
             /\ d.command = <<"-">> \o kb.command
             /\ Len(d.command) = Len(kb.command) + 1
        /\ d.keys = kb.keys /\ d.when = kb.when /\ d.args = kb.args
        /\ dd = d

C4_Witness ==
    /\ pc = "disabled_twice"
    /\ kb.command = <<"f", "o", "o">>
    /\ d.command = <<"-", "f", "o", "o">>
    /\ dd.command = <<"-", "f", "o", "o">>

-----------------------------------------------------------------------------
(* Properties of the parsers *)

\* C5: parsing the display text of a parsed chord sequence gives the parsed
\* chord sequence again: parse(display(parse(c))) = parse(c).
C5_RoundTrip ==
    (pc = "seq_reparsed") => rule2 = rule

\* an input with a capital, two chords and further tokens, whose display text
\* is not the input
C5_Witness ==
    /\ pc = "seq_reparsed"
    /\ Cardinality(TokenStarts(code)) > 2
    /\ \E i \in 1..Len(code) : code[i] = "C"
    /\ rule.second # None
    /\ shown # code
    /\ rule2 = rule

\* C6: parse_one_key lowercases the token and cuts it into '+'-terminated
\* pieces; the modifiers are the union of the flags of the recognized pieces
\* and the label is the last piece that is no recognized modifier, or empty;
\* "Ctrl+Shift+K" gives {Control, Shift} and "k".
C6_ModifiersAndLabel ==
    (pc = "key_done") =>
        LET low == to_lowercase(token)
            ps == split_inclusive(low)
            U == {i \in 1..Len(ps) : FlagOfPiece(ps[i]) = {}}
        IN /\ Len(low) = Len(token)
           /\ \A i \in 1..Len(low) : low[i] \notin {"C", "S", "K", "W", "I", "N"}
           /\ IsPlusSplit(low, ps)
           /\ parsed.modifiers \in 0..15
           /\ Flags(parsed.modifiers) = UNION {FlagOfPiece(ps[i]) : i \in 1..Len(ps)}
           /\ parsed.key = IF U = {} THEN <<>> ELSE ps[Max(U)]
           /\ token = <<"C", "t", "r", "l", "+", "S", "h", "i", "f", "t", "+", "K">>
                => parsed = Key(Control + Shift, <<"k">>)
           /\ token \in { <<"c", "m", "d", "+", "K">>, <<"m", "e", "t", "a", "+", "K">>,
                          <<"s", "u", "p", "e", "r", "+", "K">>, <<"W", "I", "N", "+", "K">> }
                => parsed = Key(Command, <<"k">>)

C6_Witness ==
    /\ pc = "key_done"
    /\ token = <<"C", "t", "r", "l", "+", "S", "h", "i", "f", "t", "+", "K">>
    /\ parsed = Key(Control + Shift, <<"k">>)

\* C7 as stated: every unrecognized piece that ends in '+' is part of the label
\* of the parsed Key.
C7_UnrecognizedFoldedIntoLabel ==
    (pc = "key_done") =>
        LET ps == split_inclusive(to_lowercase(token))
        IN \A i \in 1..Len(ps) :
            (FlagOfPiece(ps[i]) = {} /\ ps[i][Len(ps[i])] = "+")
                => Contains(parsed.key, ps[i])

\* C7 amended: every token parses to a Key; an unrecognized piece that ends in
\* '+' is the label when no other unrecognized piece follows it, and otherwise
\* it is discarded: the Key is the one of the token without that piece.
C7_UnrecognizedLastWins ==
    (pc = "key_done") =>
        LET ps == split_inclusive(to_lowercase(token))
            U == {i \in 1..Len(ps) : FlagOfPiece(ps[i]) = {}}
        IN /\ parsed.modifiers \in 0..15
           /\ DOMAIN parsed = {"modifiers", "key"}
           /\ \A i \in 1..Len(ps) :
                (FlagOfPiece(ps[i]) = {} /\ ps[i][Len(ps[i])] = "+") =>
                    IF \A j \in U : j <= i
                    THEN parsed.key = ps[i]
                    ELSE /\ parsed.key = ps[Max(U)]
                         /\ parsed = parse_one_key(Flatten(RemoveAt(ps, i)))

C7_Witness ==
    /\ pc = "key_done"
    /\ token = <<"h", "y", "p", "e", "r", "+", "K">>
    /\ parsed = Key(0, <<"k">>)

\* C8: parse_key_sequence cuts its input at ASCII whitespace; the first token
\* gives the first chord, the second token the second chord, further tokens are
\* dropped; no token gives Key{0, ""} and no second chord, one token gives no
\* second chord.
C8_FirstTwoTokens ==
    (pc \in {"seq_parsed", "seq_shown", "seq_reparsed"}) =>
        LET n == Cardinality(TokenStarts(code))
        IN /\ n = 0 => rule = KeyRule(Key(0, <<>>), None)
           /\ n >= 1 => rule.first = parse_one_key(NthToken(code, 1))
           /\ n = 1 => rule.second = None
           /\ n >= 2 => rule.second = Some(parse_one_key(NthToken(code, 2)))

C8_Witness ==
    /\ pc = "seq_parsed"
    /\ Cardinality(TokenStarts(code)) = 3
    /\ NthToken(code, 2) # NthToken(code, 3)
    /\ \E i \in 1..Len(code) : code[i] = "\t"
    /\ rule.second = Some(parse_one_key(NthToken(code, 2)))

-----------------------------------------------------------------------------
(* Properties of main *)

\* the input bindings of a loaded table whose first chord has Control
ControlItems(items) ==
    {i \in 1..Len(items) : FirstHasControl(KeyBinding_from(items[i]))}

\* C9: output is written at most once, only by a run that loaded the whole
\* table and remapped every binding, and then it is the whole output table; a
\* run whose load fails writes nothing.
C9_OutputOnceAfterAll ==
    /\ Len(stdout) <= 1
    /\ file.status # "ok" => (stdout = <<>> /\ pc \in {"start", "panicked"})
    /\ stdout # <<>> =>
        /\ pc = "done"
        /\ file.status = "ok"
        /\ Len(bindings) = Len(file.items)
        /\ idx = Len(bindings) + 1
        /\ stdout[1] = bneu
        /\ Len(stdout[1]) = 2 * Cardinality(ControlItems(file.items))

C9_Witness ==
    /\ pc = "done"
    /\ Len(file.items) = MaxItems
    /\ Len(stdout) = 1
    /\ Len(stdout[1]) = 2 * MaxItems

\* C10: the output table is, in input order, the disabled copy and then the
\* transformed copy of every input binding whose first chord has Control, and
\* nothing else: twice as many records as there are such bindings.
C10_OutputIsConcatenation ==
    (pc = "done") =>
        LET items == file.items
            ctl == ControlItems(items)
        IN /\ Len(bneu) = 2 * Cardinality(ctl)
           /\ \A i \in ctl :
                LET j == Cardinality({i2 \in ctl : i2 < i})
                    b == KeyBinding_from(items[i])
                IN /\ bneu[2 * j + 1] = ConfigItem_from(map_ctrl_binding(b)[1])
                   /\ bneu[2 * j + 2] = ConfigItem_from(map_ctrl_binding(b)[2])
                   /\ bneu[2 * j + 1].key = fmt_KeyRule(b.keys)
                   /\ bneu[2 * j + 1].command[1] = "-"
                   /\ bneu[2 * j + 2].command = items[i].command

C10_Witness ==
    /\ pc = "done"
    /\ Len(file.items) = 3
    /\ ControlItems(file.items) = {1, 3}
    /\ file.items[1] # file.items[3]
    /\ Len(bneu) = 4
    /\ bneu[3].key = fmt_KeyRule(KeyBinding_from(file.items[3]).keys)

====
